---- MODULE Spec2Model ----
(***************************************************************************)
(* A model of roblox.py: the lazily populated model objects (User, Asset,  *)
(* Group, Universe, Role), the Session request layer with its mapping of   *)
(* HTTP results onto exceptions, and the rank comparison operators.        *)
(*                                                                         *)
(* Values are integers.  Strings, ids and booleans of the program are      *)
(* represented by small integers; Null is Python's None / JSON null.       *)
(***************************************************************************)
EXTENDS Integers, Sequences, FiniteSets, TLC

VARIABLES
    obj,      \* the model object under observation: class, _data, cached properties
    last,     \* what the last operation on obj did: requests sent, result, exception
    hist,     \* per accessor: has a read of it triggered a successful detail fetch
    sess,     \* the Session operation in progress: position, open responses, requests
    cmp,      \* the last rank comparison evaluated: operands, operator, result
    iter,     \* an AsyncIterator, the listings behind it and its last operation
    client,   \* the Roblox client: username, cached user, last call
    shout     \* a Shout of a group and the last evaluation of its poster

vars == <<obj, last, hist, sess, cmp, iter, client, shout>>

-----------------------------------------------------------------------------
(* Values *)

Null == -1
NoCache == -2

\* bounds of the model
MaxRank == 3
MaxPrice == 1
MaxPages == 3
MaxItems == 1

Ids == {1}
Names == {10}
Descriptions == {Null, 20}
Bans == {Null, 0}
Statuses == {Null, 30}
ProductIds == {Null, 40}
Prices == 0..MaxPrice
Ranks == 0..MaxRank

\* dict.get(k, default)
Get(d, k, default) == IF k \in DOMAIN d THEN d[k] ELSE default

\* str.lower() on the keys that occur in the records of the API
Lower(k) ==
    CASE k = "isBanned" -> "isbanned"
      [] k = "displayName" -> "displayname"
      [] k = "userId" -> "userid"
      [] k = "Name" -> "name"
      [] k = "Description" -> "description"
      [] k = "ProductId" -> "productid"
      [] k = "AssetId" -> "assetid"
      [] k = "PriceInRobux" -> "priceinrobux"
      [] k = "Creator" -> "creator"
      [] k = "assetId" -> "assetid"
      [] k = "assetName" -> "assetname"
      [] OTHER -> k

\* CaseInsensitiveDict.update(d): every key of d is written, under its
\* lower-case form; every other key keeps its value
DictUpdate(store, d) ==
    [k \in DOMAIN store \cup {Lower(j) : j \in DOMAIN d} |->
        IF \E j \in DOMAIN d : Lower(j) = k
        THEN d[CHOOSE j \in DOMAIN d : Lower(j) = k]
        ELSE store[k]]

\* dict.setdefault(k, v)
SetDefault(d, k, v) ==
    [j \in DOMAIN d \cup {k} |-> IF j \in DOMAIN d THEN d[j] ELSE v]

\* for k in list(data.keys()): data[k.lower()] = data[k]
LowerKeys(d) ==
    [k \in DOMAIN d \cup {Lower(j) : j \in DOMAIN d} |->
        IF \E j \in DOMAIN d : Lower(j) = k /\ j # k
        THEN d[CHOOSE j \in DOMAIN d : Lower(j) = k /\ j # k]
        ELSE d[k]]

-----------------------------------------------------------------------------
(* _update of each model class *)

\* BaseUser._update, first two lines: data["username"] and data["id"] are
\* always assigned, from the first alias present and None when none is
UserAliases(data) ==
    [k \in DOMAIN data \cup {"username", "id"} |->
        IF k = "username"
        THEN Get(data, "username", Get(data, "name",
                 Get(data, "displayname", Get(data, "displayName", Null))))
        ELSE IF k = "id"
        THEN Get(data, "id", Get(data, "userid", Get(data, "userId", Null)))
        ELSE data[k]]

User_update(store, data) == DictUpdate(store, UserAliases(data))

Asset_update(store, data) ==
    LET d0 == LowerKeys(data)
        d1 == SetDefault(d0, "price", Get(d0, "priceinrobux", Null))
        d2 == SetDefault(d1, "id", Get(d1, "assetid", Null))
        d3 == SetDefault(d2, "name", Get(d2, "assetname", Null))
    IN  DictUpdate(store, d3)

Group_update(store, data) == DictUpdate(store, data)

Universe_update(store, data) == DictUpdate(store, LowerKeys(data))

Role_update(store, data) == DictUpdate(store, data)

UserClasses == {"User", "ClientUser", "FriendRequest", "GroupMember"}

Update(cls, store, data) ==
    CASE cls \in UserClasses -> User_update(store, data)
      [] cls = "Asset" -> Asset_update(store, data)
      [] cls = "Group" -> Group_update(store, data)
      [] cls = "Universe" -> Universe_update(store, data)
      [] cls = "Role" -> Role_update(store, data)

\* the dictionary each constructor starts from
UserBlank ==
    [k \in {"username", "name", "id", "description", "status", "isbanned"} |-> Null]
AssetBlank ==
    [k \in {"name", "description", "id", "productid", "price", "creator"} |-> Null]
GroupBlank == [k \in {"id", "name", "description"} |-> Null]
UniverseBlank == [k \in {"name", "description", "id"} |-> Null]
RoleBlank == [k \in {"id", "name", "description", "rank"} |-> Null]

Blank(cls) ==
    CASE cls \in UserClasses -> UserBlank
      [] cls = "Asset" -> AssetBlank
      [] cls = "Group" -> GroupBlank
      [] cls = "Universe" -> UniverseBlank
      [] cls = "Role" -> RoleBlank

-----------------------------------------------------------------------------
(* Session: the outcome of each operation on the response it receives.     *)
(* A response is [status, body]; body is the decoded JSON record.  The     *)
(* body of an error response is [errors |-> <<code, ...>>].                *)

ok(resp) == 200 <= resp.status /\ resp.status < 300

Return(v) == [kind |-> "return", exc |-> "", val |-> v]
Raise(e) == [kind |-> "raise", exc |-> e, val |-> Null]

True == 1
False == 0

\* data["errors"][0]["code"]
ErrCode(body) == body["errors"][1]
HasErr(body) == "errors" \in DOMAIN body /\ Len(body["errors"]) > 0

\* data[k], which raises KeyError when k is missing
Item(body, k) == IF k \in DOMAIN body THEN Return(body[k]) ELSE Raise("KeyError")

login_post(resp) ==
    IF ~ok(resp)
    THEN IF "errors" \notin DOMAIN resp.body \/ Len(resp.body["errors"]) = 0
         THEN Raise("AuthError")
         ELSE IF ErrCode(resp.body) = 2 THEN Raise("Captcha") ELSE Raise("AuthError")
    ELSE Return(Null)

manual_auth(resp) == IF ok(resp) THEN Return(Null) ELSE Raise("AuthError")

logout(resp) == Return(IF ok(resp) THEN True ELSE False)

is_authorized(resp) == Return(IF ok(resp) THEN True ELSE False)

\* if ok(resp): return await resp.json() / else: raise exc
JsonOrRaise(resp, exc) == IF ok(resp) THEN Return(resp.body) ELSE Raise(exc)

\* if ok(resp): return True / else: raise exc
TrueOrRaise(resp, exc) == IF ok(resp) THEN Return(True) ELSE Raise(exc)

my_settings(resp) == JsonOrRaise(resp, "AuthError")

get_by_username(resp) ==
    IF ~ok(resp) THEN Raise("UserIdentificationError")
    ELSE IF "Id" \in DOMAIN resp.body
         THEN Return([id |-> resp.body["Id"]])
         ELSE Raise("KeyError")

get_user_data(resp) == JsonOrRaise(resp, "UserIdentificationError")

is_premium(resp) == JsonOrRaise(resp, "AuthError")

user_status(resp) == JsonOrRaise(resp, "UserIdentificationError")

post_status(resp) ==
    IF ok(resp) THEN Return(resp.body)
    ELSE IF resp.status = 403 THEN Raise("AuthError") ELSE Raise("UserError")

get_user_friends(resp) ==
    IF resp.status = 404 THEN Raise("UserIdentificationError")
    ELSE Item(resp.body, "data")

check_status(resp) ==
    IF ~ok(resp)
    THEN IF ~HasErr(resp.body) THEN Raise("KeyError")
         ELSE IF ErrCode(resp.body) = 1
              THEN Raise("UserIdentificationError")
              ELSE Raise("UserError")
    ELSE Item(resp.body, "data")

\* if ok: return True / elif status == 400: UserIdentificationError / else UserError
TrueOr400(resp) ==
    IF ok(resp) THEN Return(True)
    ELSE IF resp.status = 400 THEN Raise("UserIdentificationError") ELSE Raise("UserError")

unfriend(resp) == TrueOr400(resp)
follow(resp) == TrueOr400(resp)
unfollow(resp) == TrueOr400(resp)

CountOr400(resp) ==
    IF ok(resp) THEN Item(resp.body, "count")
    ELSE IF resp.status = 400 THEN Raise("UserIdentificationError") ELSE Raise("UserError")

follower_count(resp) == CountOr400(resp)
followings_count(resp) == CountOr400(resp)

friend_request_count(resp) ==
    IF ok(resp) THEN Item(resp.body, "count") ELSE Raise("AuthError")

decline_all_friend_requests(resp) == TrueOrRaise(resp, "AuthError")

accept_friend_request(resp) ==
    IF ~ok(resp)
    THEN IF ~HasErr(resp.body) THEN Raise("KeyError")
         ELSE IF ErrCode(resp.body) = 1 THEN Raise("UserIdentificationError")
         ELSE IF ErrCode(resp.body) = 10 THEN Raise("UserError")
         ELSE IF ErrCode(resp.body) \in {11, 12} THEN Raise("FriendLimitExceeded")
         ELSE Return(Null)
    ELSE Return(True)

decline_friend_request(resp) ==
    IF ~ok(resp)
    THEN IF ~HasErr(resp.body) THEN Raise("KeyError")
         ELSE IF ErrCode(resp.body) = 1 THEN Raise("UserIdentificationError")
         ELSE IF ErrCode(resp.body) = 10 THEN Raise("UserError")
         ELSE Return(Null)
    ELSE Return(True)

request_friendship(resp) ==
    IF Get(resp.body, "success", False) = True THEN Return(True)
    ELSE IF Get(resp.body, "isCaptchaRequired", False) = True THEN Raise("Captcha")
    ELSE IF ~HasErr(resp.body) THEN Raise("KeyError")
    ELSE IF ErrCode(resp.body) \in {1, 10} THEN Raise("UserIdentificationError")
    ELSE Raise("UserError")

product_info(resp) == JsonOrRaise(resp, "AssetNotFound")

get_currency(resp) == JsonOrRaise(resp, "AuthError")

purchase_product(resp) ==
    IF "purchased" \notin DOMAIN resp.body THEN Raise("KeyError")
    ELSE IF resp.body["purchased"] = True THEN Return(resp.body)
    ELSE IF "reason" \in DOMAIN resp.body /\ resp.body["reason"] = "PriceChanged"
         THEN Raise("PriceChanged")
    ELSE Raise("PurchaseError")

has_asset(resp) == JsonOrRaise(resp, "UserError")

favorites_count(resp) == JsonOrRaise(resp, "AssetNotFound")

favorite_model(resp) == Return(resp.body)

\* delete_favorite and create_favorite map the response the same way
Favorite(resp) ==
    IF ok(resp) THEN Return(True)
    ELSE IF ~HasErr(resp.body) THEN Raise("KeyError")
    ELSE IF resp.status = 400 THEN Raise("AssetNotFound")
    ELSE IF resp.status = 403
         THEN IF ErrCode(resp.body) \in {0, 6} THEN Raise("AuthError")
              ELSE IF ErrCode(resp.body) = 7 THEN Raise("Captcha")
              ELSE Return(Null)
    ELSE IF resp.status = 409 THEN Raise("AssetError")
    ELSE Return(Null)

delete_favorite(resp) == Favorite(resp)
create_favorite(resp) == Favorite(resp)

UniverseFavorite(resp) ==
    IF ok(resp) THEN Return(resp.body)
    ELSE IF resp.status = 400 THEN Raise("GameNotFound")
    ELSE IF resp.status = 401 THEN Raise("AuthError")
    ELSE Return(Null)

universe_favorited(resp) == UniverseFavorite(resp)
universe_favorites(resp) == UniverseFavorite(resp)

favorite_universe(resp) ==
    IF ok(resp) THEN Return(resp.body)
    ELSE IF resp.status = 400 THEN Raise("GameNotFound")
    ELSE IF resp.status = 401 THEN Raise("AuthError")
    ELSE Raise("UserError")

get_place_details(resp) == JsonOrRaise(resp, "GameNotFound")
get_game_details(resp) == JsonOrRaise(resp, "GameNotFound")
delete_from_inventory(resp) == TrueOrRaise(resp, "AssetError")
configure_asset_sales_post(resp) == TrueOrRaise(resp, "AssetError")
configure_asset(resp) == TrueOrRaise(resp, "AssetError")
get_group_details(resp) == JsonOrRaise(resp, "GroupNotFound")
get_group_roles(resp) == JsonOrRaise(resp, "GroupNotFound")
get_role_details(resp) == JsonOrRaise(resp, "RoleNotFound")
get_user_roles(resp) == JsonOrRaise(resp, "UserError")
set_member_role(resp) == TrueOrRaise(resp, "RoleError")
configure_role(resp) == JsonOrRaise(resp, "RoleEditError")
get_permissions(resp) == JsonOrRaise(resp, "RoleError")

\* errors.py defines no PermissionError: the name is Python's builtin
edit_permissions(resp) == TrueOrRaise(resp, "PermissionError")

\* the classes of errors.py
RobloxExceptions ==
    {"RobloxException", "RateLimit", "AuthError", "Captcha", "UserError",
     "FriendLimitExceeded", "UserIdentificationError", "AssetError",
     "AssetNotFound", "PurchaseError", "PriceChanged", "GameNotFound",
     "GroupError", "GroupNotFound", "UserNotInGroup", "RoleError",
     "RoleNotFound", "RoleEditError"}

-----------------------------------------------------------------------------
(* Model objects: one run of a property or method over the object's state. *)
(* A run record threads _data, the cached properties, the requests sent so *)
(* far, the exception raised (if any) and the value returned.              *)

EmptyRec == [k \in {} |-> Null]

Run(o) ==
    [data |-> o.data, idc |-> o.idc, unc |-> o.unc, reqs |-> <<>>,
     exc |-> "", ret |-> Null, rec |-> EmptyRec, sent |-> Null]

Sent(s, name) == [s EXCEPT !.reqs = Append(@, name)]

\* bool(v): None, 0, "" and False are falsy
Truthy(v) == v # Null /\ v # 0

\* a or b
Or(a, b) == IF Truthy(a) THEN a ELSE b

\* BaseUser.id (async_cached_property): the body runs until it first returns
User_id(s, r) ==
    IF s.idc # NoCache THEN [s EXCEPT !.ret = s.idc]
    ELSE IF s.data["id"] = Null
    THEN LET out == get_by_username(r)
             s1 == Sent(s, "get_by_username")
         IN  IF out.kind = "raise" THEN [s1 EXCEPT !.exc = out.exc]
             ELSE LET d == User_update(s1.data, out.val)
                  IN  [s1 EXCEPT !.data = d, !.idc = d["id"], !.ret = d["id"]]
    ELSE [s EXCEPT !.idc = s.data["id"], !.ret = s.data["id"]]

\* BaseUser._get_profile_data
User_get_profile_data(s, r1, r2) ==
    LET s1 == User_id(s, r1)
    IN  IF s1.exc # "" THEN s1
        ELSE LET out == get_user_data(r2)
                 s2 == Sent(s1, "get_user_data")
             IN  IF out.kind = "raise" THEN [s2 EXCEPT !.exc = out.exc]
                 ELSE [s2 EXCEPT !.data = User_update(s2.data, out.val),
                                 !.rec = out.val, !.ret = Null]

\* BaseUser.username (async_cached_property)
User_username(s, r1, r2) ==
    IF s.unc # NoCache THEN [s EXCEPT !.ret = s.unc]
    ELSE LET s1 == IF s.data["username"] = Null
                   THEN User_get_profile_data(s, r1, r2) ELSE s
         IN  IF s1.exc # "" THEN s1
             ELSE LET v == Or(s1.data["username"], s1.data["name"])
                  IN  [s1 EXCEPT !.unc = v, !.ret = v]

\* BaseUser.description and BaseUser.is_banned, fetching on every read
User_field_always(field, s, r1, r2) ==
    LET s1 == User_get_profile_data(s, r1, r2)
    IN  IF s1.exc # "" THEN s1 ELSE [s1 EXCEPT !.ret = s1.data[field]]

\* BaseUser.description and BaseUser.is_banned
User_field(field, s, r1, r2) ==
    LET s1 == IF s.data[field] = Null
              THEN User_get_profile_data(s, r1, r2) ELSE s
    IN  IF s1.exc # "" THEN s1 ELSE [s1 EXCEPT !.ret = s1.data[field]]

\* BaseUser.status()
User_status(s, r1, r3) ==
    LET s1 == User_id(s, r1)
    IN  IF s1.exc # "" THEN s1
        ELSE LET out == user_status(r3)
                 s2 == Sent(s1, "user_status")
             IN  IF out.kind = "raise" THEN [s2 EXCEPT !.exc = out.exc]
                 ELSE LET d == User_update(s2.data, out.val)
                      IN  [s2 EXCEPT !.data = d, !.rec = out.val, !.ret = d["status"]]

\* ClientUser.set_status(status)
User_set_status(s, r1, r4) ==
    LET s1 == User_id(s, r1)
    IN  IF s1.exc # "" THEN s1
        ELSE LET out == post_status(r4)
                 s2 == Sent(s1, "post_status")
             IN  IF out.kind = "raise" THEN [s2 EXCEPT !.exc = out.exc]
                 ELSE [s2 EXCEPT !.data = User_update(s2.data, out.val),
                                 !.rec = out.val, !.ret = out.val["status"]]

\* the detail request of each class
DetailReq(cls) ==
    CASE cls \in UserClasses -> "get_user_data"
      [] cls = "Asset" -> "product_info"
      [] cls = "Group" -> "get_group_details"
      [] cls = "Universe" -> "get_game_details"
      [] cls = "Role" -> "get_role_details"

\* (await ...)["data"][0]
First(out) ==
    IF out.kind = "raise" THEN out
    ELSE IF "data" \notin DOMAIN out.val THEN Raise("KeyError")
    ELSE IF Len(out.val["data"]) = 0 THEN Raise("IndexError")
    ELSE Return(out.val["data"][1])

\* Asset._get_product_info, Group._get_group_details,
\* Universe._get_game_details, Role._get_role_details.
\* Group reads its id through g_info("id"), which calls _get_group_details
\* again when the id is None.
GetDetails(cls, s, r) ==
    IF cls = "Group" /\ s.data["id"] = Null THEN [s EXCEPT !.exc = "RecursionError"]
    ELSE LET out == CASE cls = "Asset" -> product_info(r)
                      [] cls = "Group" -> get_group_details(r)
                      [] cls = "Universe" -> First(get_game_details(r))
                      [] cls = "Role" -> First(get_role_details(r))
             s1 == Sent(s, DetailReq(cls))
         IN  IF out.kind = "raise" THEN [s1 EXCEPT !.exc = out.exc]
             ELSE [s1 EXCEPT !.data = Update(cls, s1.data, out.val), !.rec = out.val]

\* the wrapper with its test of the stored field left out
Accessor_always(cls, field, nocache, s, r) ==
    LET s1 == GetDetails(cls, s, r)
    IN  IF s1.exc # "" THEN s1 ELSE [s1 EXCEPT !.ret = s1.data[field]]

\* the wrapper of p_info / g_info, and the accessors of Role
Accessor(cls, field, nocache, s, r) ==
    LET s1 == IF nocache \/ s.data[field] = Null THEN GetDetails(cls, s, r) ELSE s
    IN  IF s1.exc # "" THEN s1 ELSE [s1 EXCEPT !.ret = s1.data[field]]

\* the properties of each class: name |-> <<field of _data, nocache>>
Props(cls) ==
    CASE cls \in UserClasses ->
            [description |-> <<"description", FALSE>>,
             is_banned |-> <<"isbanned", FALSE>>]
      [] cls = "Asset" ->
            [name |-> <<"name", FALSE>>, description |-> <<"description", FALSE>>,
             product_id |-> <<"productid", FALSE>>, price |-> <<"price", TRUE>>]
      [] cls = "Group" ->
            [name |-> <<"name", FALSE>>, description |-> <<"description", FALSE>>]
      [] cls = "Universe" ->
            [name |-> <<"name", FALSE>>, description |-> <<"description", FALSE>>]
      [] cls = "Role" ->
            [name |-> <<"name", FALSE>>, description |-> <<"description", FALSE>>,
             rank |-> <<"rank", FALSE>>]

\* the accessors that fetch only when the stored field is None
CacheAccessors(cls) == {p \in DOMAIN Props(cls) : ~Props(cls)[p][2]}

ReadProp(cls, prop, s, r1, r2) ==
    IF cls \in UserClasses
    THEN User_field(Props(cls)[prop][1], s, r1, r2)
    ELSE Accessor(cls, Props(cls)[prop][1], Props(cls)[prop][2], s, r2)

\* Asset.purchase, statement by statement; each step is skipped once an
\* exception is on its way out.  rInfo answers the product-info requests of
\* the call, rUser the resolution of the creator's id, rBuy the purchase.
\* expected_price = expected_price or await self.price
Asset_purchase_price(s, expected_price, rInfo) ==
    LET s1 == IF Truthy(expected_price) THEN [s EXCEPT !.ret = expected_price]
              ELSE Accessor("Asset", "price", TRUE, s, rInfo)
    IN  IF s1.exc # "" THEN s1 ELSE [s1 EXCEPT !.sent = s1.ret]

\* expected_seller = await (await self.creator).id
Asset_purchase_seller(s, rInfo, rUser) ==
    IF s.exc # "" THEN s
    ELSE LET s1 == IF s.data["creator"] = Null THEN GetDetails("Asset", s, rInfo) ELSE s
             out == get_by_username(rUser)
         IN  IF s1.exc # "" THEN s1
             ELSE IF out.kind = "raise"
             THEN [Sent(s1, "get_by_username") EXCEPT !.exc = out.exc]
             ELSE Sent(s1, "get_by_username")

\* await self.product_id
Asset_purchase_product(s, rInfo) ==
    IF s.exc # "" THEN s
    ELSE Accessor("Asset", "productid", FALSE, s, rInfo)

\* return await self._state.purchase_product(product_id, expected_price, expected_seller)
Asset_purchase_post(s, rBuy) ==
    IF s.exc # "" THEN s
    ELSE LET out == purchase_product(rBuy)
         IN  IF out.kind = "raise"
             THEN [Sent(s, "purchase_product") EXCEPT !.exc = out.exc]
             ELSE [Sent(s, "purchase_product") EXCEPT !.ret = out.val]

\* Asset.purchase(expected_price); s.sent is the expected price the purchase
\* request carries
Asset_purchase(s, expected_price, rInfo, rUser, rBuy) ==
    LET S1 == {Asset_purchase_price(s, expected_price, rInfo)}
        S2 == {Asset_purchase_seller(x, rInfo, rUser) : x \in S1}
        S3 == {Asset_purchase_product(x, rInfo) : x \in S2}
        S4 == {Asset_purchase_post(x, rBuy) : x \in S3}
    IN  CHOOSE r \in S4 : TRUE

-----------------------------------------------------------------------------
(* The responses of the API, and the data objects are constructed from *)

ErrResp(st, c) == [status |-> st, body |-> [errors |-> <<c>>]]

ByUsernameResps ==
    {[status |-> 200, body |-> [Id |-> i]] : i \in Ids} \cup {ErrResp(404, 0)}

UserDataResps ==
    {[status |-> 200,
      body |-> [id |-> i, name |-> n, description |-> d, isBanned |-> b]] :
        i \in Ids, n \in Names, d \in Descriptions, b \in Bans}
    \cup {ErrResp(404, 0)}

StatusResps ==
    {[status |-> 200, body |-> [status |-> t]] : t \in Statuses}
    \cup {ErrResp(404, 0)}

PostStatusResps ==
    {[status |-> 200, body |-> [status |-> t]] : t \in Statuses}
    \cup {ErrResp(403, 0), ErrResp(500, 0)}

ProductInfoResps ==
    {[status |-> 200,
      body |-> [Name |-> n, Description |-> d, ProductId |-> p, AssetId |-> i,
                PriceInRobux |-> c, Creator |-> 50]] :
        n \in Names, d \in Descriptions, p \in ProductIds,
        i \in Ids, c \in Prices}
    \cup {ErrResp(400, 0)}

GroupResps ==
    {[status |-> 200, body |-> [id |-> i, name |-> n, description |-> d]] :
        i \in Ids, n \in Names \cup {Null}, d \in Descriptions}
    \cup {ErrResp(400, 0)}

GameResps ==
    {[status |-> 200,
      body |-> [data |-> <<[id |-> i, name |-> n, description |-> d]>>]] :
        i \in Ids, n \in Names \cup {Null}, d \in Descriptions}
    \cup {[status |-> 200, body |-> [data |-> <<>>]], ErrResp(400, 0)}

RoleResps ==
    {[status |-> 200,
      body |-> [data |-> <<[id |-> i, name |-> n, description |-> d, rank |-> k]>>]] :
        i \in Ids, n \in Names \cup {Null}, d \in Descriptions, k \in Ranks}
    \cup {[status |-> 200, body |-> [data |-> <<>>]], ErrResp(400, 0)}

DetailResps(cls) ==
    CASE cls \in UserClasses -> UserDataResps
      [] cls = "Asset" -> ProductInfoResps
      [] cls = "Group" -> GroupResps
      [] cls = "Universe" -> GameResps
      [] cls = "Role" -> RoleResps

BuyResps ==
    {[status |-> 200, body |-> [purchased |-> True]],
     [status |-> 200, body |-> [purchased |-> False, reason |-> "PriceChanged"]],
     [status |-> 200, body |-> [purchased |-> False, reason |-> "InvalidArguments"]],
     ErrResp(500, 0)}

\* the data a constructor is called with: Roblox.get_user and Roblox.blocked
\* (username, id), Roblox.user (username only, "" before a login), the
\* friends and followers listings (id, name), the group listings (user, role),
\* Inventory.by_type (assetId, assetName), Roblox.get_asset (product info),
\* Roblox.get_group and Roblox.get_universe (id and optional data)
CtorData(cls) ==
    CASE cls = "User" ->
            {[username |-> u, id |-> i] : u \in Names \cup {Null}, i \in Ids \cup {Null}}
            \cup {[id |-> i, name |-> n] : i \in Ids, n \in Names}
            \cup {EmptyRec}
      [] cls = "ClientUser" ->
            {[username |-> u] : u \in Names \cup {0}}
            \cup {[username |-> u, id |-> i] : u \in Names, i \in Ids \cup {Null}}
      [] cls = "FriendRequest" ->
            {[id |-> i, name |-> n] : i \in Ids, n \in Names} \cup {EmptyRec}
      [] cls = "GroupMember" ->
            {[user |-> [userId |-> i, username |-> n], role |-> k] :
                i \in Ids, n \in Names, k \in {Null, 1}}
            \cup {[user |-> EmptyRec, role |-> Null]}
      [] cls = "Asset" ->
            {[assetId |-> i, assetName |-> n] : i \in Ids, n \in Names}
            \cup {[id |-> i] : i \in Ids}
            \cup {r.body : r \in {q \in ProductInfoResps : ok(q)}}
      [] cls = "Group" ->
            {[id |-> i] : i \in Ids}
            \cup {[id |-> i, name |-> n, description |-> d] :
                    i \in Ids, n \in Names, d \in Descriptions}
      [] cls = "Universe" ->
            {[id |-> i] : i \in Ids}
            \cup {[id |-> i, name |-> n, description |-> d] :
                    i \in Ids, n \in Names, d \in Descriptions}
      [] cls = "Role" ->
            {[id |-> i] : i \in Ids}
            \cup {[id |-> i, name |-> n, rank |-> k] :
                    i \in Ids, n \in Names, k \in Ranks}

Classes == UserClasses \cup {"Asset", "Group", "Universe", "Role"}

\* __init__ of each class: the store after construction
Constructed(cls, data) ==
    IF cls = "GroupMember"
    THEN DictUpdate(DictUpdate(User_update(UserBlank, data["user"]),
                               [role |-> Null]),
                    [data EXCEPT !["user"] = UserAliases(@)])
    ELSE Update(cls, Blank(cls), data)

\* BaseUser.__init__ raises when neither username nor id is given
CtorRaises(cls, store) ==
    cls \in UserClasses /\ store["username"] = Null /\ store["id"] = Null

-----------------------------------------------------------------------------
(* Operations on the model object *)

NoObj == [cls |-> "none", data |-> EmptyRec, idc |-> NoCache, unc |-> NoCache]

NoLast ==
    [op |-> "", pre |-> Null, reqs |-> <<>>, exc |-> "", ret |-> Null,
     rec |-> EmptyRec, arg |-> Null, sent |-> Null,
     hadFetch |-> FALSE, wasStable |-> FALSE]

NoHist == [fetched |-> {}, stable |-> {}]

SessIdle ==
    [op |-> "idle", pc |-> "idle", open |-> 0, reqs |-> <<>>, answered |-> 0,
     bad |-> FALSE, first |-> 0, status |-> 0, out |-> Return(Null),
     params |-> EmptyRec, given |-> EmptyRec, yielded |-> <<>>, served |-> <<>>]

NoCmp ==
    [x |-> [kind |-> "none", rank |-> Null], y |-> [kind |-> "none", rank |-> Null],
     opr |-> "", res |-> FALSE, exc |-> ""]

NoIter ==
    [kind |-> "none", gen |-> "none", pos |-> 0, started |-> FALSE,
     srv |-> EmptyRec, auth |-> TRUE, atype |-> Null, op |-> "", arg |-> Null,
     targ |-> [str |-> FALSE, name |-> "", val |-> Null], exc |-> "",
     list |-> <<>>, ret |-> Null, reqs |-> <<>>, fresh |-> TRUE]

NoClient ==
    [username |-> 0, session |-> Null, user |-> NoObj, op |-> "", arg |-> Null,
     argId |-> Null, exc |-> "", reqs |-> <<>>, wasRead |-> FALSE,
     ret |-> [cls |-> "none", data |-> EmptyRec]]

NoShout ==
    [group |-> Null, posterId |-> Null, posterName |-> Null, cname |-> 0,
     op |-> "", exc |-> "", ret |-> [cls |-> "none", data |-> EmptyRec],
     memberExc |-> "", called |-> FALSE, reqs |-> <<>>, entries |-> <<>>,
     rolesOk |-> FALSE]

Range(f) == {f[i] : i \in DOMAIN f}

\* the bookkeeping of detail fetches: an accessor is in fetched once a read
\* of it has triggered a successful detail fetch, and in stable while its
\* field has been non-null ever since such a fetch
NewHist(h, cls, op, s) ==
    LET just == IF op \in CacheAccessors(cls) /\ s.exc = ""
                   /\ DetailReq(cls) \in Range(s.reqs)
                THEN {op} ELSE {}
    IN  [fetched |-> h.fetched \cup just,
         stable |-> {a \in h.stable \cup just : s.data[Props(cls)[a][1]] # Null}]

\* the state after a run s of operation op
Commit(op, pre, arg, s) ==
    /\ obj' = [obj EXCEPT !.data = s.data, !.idc = s.idc, !.unc = s.unc]
    /\ last' = [op |-> op, pre |-> pre, reqs |-> s.reqs, exc |-> s.exc,
                ret |-> s.ret, rec |-> s.rec, arg |-> arg, sent |-> s.sent,
                hadFetch |-> op \in hist.fetched, wasStable |-> op \in hist.stable]
    /\ hist' = NewHist(hist, obj.cls, op, s)
    /\ UNCHANGED <<sess, cmp, iter, client, shout>>

Construct(cls, data) ==
    /\ obj.cls = "none"
    /\ last.op = ""
    /\ LET store == Constructed(cls, data)
       IN  IF CtorRaises(cls, store)
           THEN /\ last' = [NoLast EXCEPT !.op = "__init__",
                                          !.exc = "UserIdentificationError"]
                /\ obj' = obj
           ELSE /\ last' = [NoLast EXCEPT !.op = "__init__"]
                /\ obj' = [NoObj EXCEPT !.cls = cls, !.data = store]
    /\ UNCHANGED <<hist, sess, cmp, iter, client, shout>>

ReadId(r1) ==
    /\ obj.cls \in UserClasses
    /\ \E s \in {User_id(Run(obj), r1)} : Commit("id", obj.data["id"], Null, s)

ReadUsername(r1, r2) ==
    /\ obj.cls \in UserClasses
    /\ \E s \in {User_username(Run(obj), r1, r2)} :
          Commit("username", obj.data["username"], Null, s)

ReadProperty(prop, r1, r2) ==
    /\ obj.cls \in Classes
    /\ prop \in DOMAIN Props(obj.cls)
    /\ \E s \in {ReadProp(obj.cls, prop, Run(obj), r1, r2)} :
          Commit(prop, obj.data[Props(obj.cls)[prop][1]], Null, s)

Status(r1, r3) ==
    /\ obj.cls \in UserClasses
    /\ \E s \in {User_status(Run(obj), r1, r3)} : Commit("status", Null, Null, s)

SetStatus(r1, r4) ==
    /\ obj.cls = "ClientUser"
    /\ \E s \in {User_set_status(Run(obj), r1, r4)} :
          Commit("set_status", Null, Null, s)

\* Roblox.login and Roblox.manual_auth end with user._get_profile_data()
GetProfileData(r1, r2) ==
    /\ obj.cls = "ClientUser"
    /\ \E s \in {User_get_profile_data(Run(obj), r1, r2)} :
          Commit("_get_profile_data", Null, Null, s)

Purchase(expected_price, rInfo, rUser, rBuy) ==
    /\ obj.cls = "Asset"
    /\ \E s \in {Asset_purchase(Run(obj), expected_price, rInfo, rUser, rBuy)} :
          Commit("purchase", Null, expected_price, s)

InitObj ==
    /\ obj = NoObj
    /\ last = NoLast
    /\ hist = NoHist
    /\ sess = SessIdle
    /\ cmp = NoCmp
    /\ iter = NoIter
    /\ client = NoClient
    /\ shout = NoShout

\* the id resolution is a request of User objects only
IdResps(cls) == IF cls \in UserClasses THEN ByUsernameResps ELSE {ErrResp(404, 0)}

NextObj ==
    \/ \E cls \in Classes : \E data \in CtorData(cls) : Construct(cls, data)
    \/ \E r1 \in ByUsernameResps : ReadId(r1)
    \/ \E r1 \in ByUsernameResps, r2 \in UserDataResps : ReadUsername(r1, r2)
    \/ /\ obj.cls \in Classes
       /\ \E prop \in DOMAIN Props(obj.cls) :
            \E r1 \in IdResps(obj.cls), r2 \in DetailResps(obj.cls) :
               ReadProperty(prop, r1, r2)
    \/ \E r1 \in ByUsernameResps, r3 \in StatusResps : Status(r1, r3)
    \/ \E r1 \in ByUsernameResps, r4 \in PostStatusResps : SetStatus(r1, r4)
    \/ \E r1 \in ByUsernameResps, r2 \in UserDataResps : GetProfileData(r1, r2)

SpecObj == InitObj /\ [][NextObj]_vars

\* Asset.purchase on an Asset built by any of its constructors
InitPurchase ==
    /\ \E data \in CtorData("Asset") :
          obj = [NoObj EXCEPT !.cls = "Asset", !.data = Constructed("Asset", data)]
    /\ last = NoLast
    /\ hist = NoHist
    /\ sess = SessIdle
    /\ cmp = NoCmp
    /\ iter = NoIter
    /\ client = NoClient
    /\ shout = NoShout

NextPurchase ==
    \E p \in Prices \cup {Null} :
      \E rInfo \in ProductInfoResps, rUser \in ByUsernameResps, rBuy \in BuyResps :
         Purchase(p, rInfo, rUser, rBuy)

SpecPurchase == InitPurchase /\ [][NextPurchase]_vars

-----------------------------------------------------------------------------
(* Properties of the model objects *)

CountOf(seq, x) == Cardinality({i \in DOMAIN seq : seq[i] = x})

\* the last operation was a read of a cache-on-absence accessor
AccessorRead == obj.cls \in Classes /\ last.op \in CacheAccessors(obj.cls)

\* C1 (as claimed): in every reachable state a User object stores an id or a
\* username that is not None
UserIdentified ==
    obj.cls \in UserClasses => (obj.data["id"] # Null \/ obj.data["username"] # Null)

\* C2: a read of a cache-on-absence accessor whose stored field is not None
\* sends no request and returns the stored value; a read whose stored field
\* is None sends one detail request (for a User, after at most the request
\* that resolves its id), and when that succeeds every field of the response
\* is in the object's data and the value returned is the stored field
LazyRead ==
    AccessorRead =>
        /\ last.pre # Null =>
              last.reqs = <<>> /\ last.exc = "" /\ last.ret = last.pre
        /\ last.pre = Null =>
              /\ CountOf(last.reqs, DetailReq(obj.cls)) <= 1
              /\ Range(last.reqs) \subseteq {DetailReq(obj.cls), "get_by_username"}
              /\ last.exc = "" =>
                    /\ CountOf(last.reqs, DetailReq(obj.cls)) = 1
                    /\ \A k \in DOMAIN last.rec : obj.data[Lower(k)] = last.rec[k]
                    /\ last.ret = obj.data[Props(obj.cls)[last.op][1]]

\* C2 witness: a read found the field None, fetched, and returned the value
\* the response carried
LazyReadFetched ==
    /\ AccessorRead
    /\ last.pre = Null
    /\ last.exc = ""
    /\ last.ret # Null
    /\ DetailReq(obj.cls) \in Range(last.reqs)

\* C3 (as claimed): once a read of an accessor has triggered a successful
\* detail fetch, no later read of that accessor sends a request
NoRefetch ==
    (AccessorRead /\ last.hadFetch) => last.reqs = <<>>

\* C3 (amended): once a read of an accessor has triggered a successful detail
\* fetch, later reads of that accessor send no request for as long as the
\* stored field has not been None since that fetch
NoRefetchWhileStable ==
    (AccessorRead /\ last.wasStable) => (last.reqs = <<>> /\ last.exc = "")

\* C3 witness: a second read of an accessor after the fetch its first read
\* triggered, served from the object's data
ReadAfterFetch ==
    /\ AccessorRead
    /\ last.hadFetch
    /\ last.wasStable
    /\ last.ret # Null

\* C10 (as claimed): purchase(expected_price=p) with p given sends p as the
\* expected price of the purchase request
ExpectedPriceSent ==
    (last.op = "purchase" /\ last.arg # Null
        /\ "purchase_product" \in Range(last.reqs))
    => last.sent = last.arg

\* C19 (as claimed): an operation on a user that merges only the record of
\* the id resolution (id) or of the status (status) leaves every other
\* stored field as it was, and a stored id that was not null as it was
UpdateFrame ==
    [][(last'.op \in {"id", "status", "set_status"} /\ last'.exc = ""
            /\ obj.cls \in UserClasses)
       => /\ \A k \in DOMAIN obj.data \ {"id", "status"} : obj'.data[k] = obj.data[k]
          /\ obj.data["id"] # Null => obj'.data["id"] = obj.data["id"]]_vars

-----------------------------------------------------------------------------
(* Session operations, request by request.  sess.open counts the responses *)
(* whose "async with" block has been entered and not yet left; sess.reqs   *)
(* lists the requests sent by the operation in progress, sess.answered     *)
(* counts the responses it has received, sess.bad records that one of them *)
(* was not 2xx, and sess.out is what the caller gets once pc = "done".     *)

\* operations that send one request and map its response
SimpleOps ==
    {"manual_auth", "logout", "is_authorized", "my_settings", "get_by_username",
     "get_user_data", "is_premium", "user_status", "post_status",
     "get_user_friends", "check_status", "unfriend", "friend_request_count",
     "decline_all_friend_requests", "accept_friend_request",
     "decline_friend_request", "request_friendship", "follow", "unfollow",
     "follower_count", "followings_count", "product_info", "get_currency",
     "purchase_product", "has_asset", "favorites_count", "favorite_model",
     "delete_favorite", "create_favorite", "universe_favorited",
     "universe_favorites", "favorite_universe", "get_place_details",
     "get_game_details", "delete_from_inventory", "configure_asset",
     "get_group_details", "get_group_roles", "get_role_details",
     "get_user_roles", "set_member_role", "configure_role", "get_permissions",
     "edit_permissions"}

\* operations that send a GET and then a POST, each in its own block
TwoStepOps == {"login", "configure_asset_sales", "upload_asset"}

\* the listings read through gen_pages
PagedOps ==
    {"get_friend_requests", "followers", "followings", "inventory_by_type",
     "get_user_games", "get_group_members", "get_role_members",
     "get_game_servers", "gen_pages"}

\* the params a listing hands to gen_pages: get_user_games passes its access
\* filter when it has one; gen_pages called directly may be given a limit
GivenParams(op) ==
    CASE op = "get_user_games" -> {EmptyRec, [accessFilter |-> 1]}
      [] op = "gen_pages" -> {EmptyRec, [limit |-> 25]}
      [] OTHER -> {EmptyRec}

Outcome(op, resp) ==
    CASE op = "manual_auth" -> manual_auth(resp)
      [] op = "logout" -> logout(resp)
      [] op = "is_authorized" -> is_authorized(resp)
      [] op = "my_settings" -> my_settings(resp)
      [] op = "get_by_username" -> get_by_username(resp)
      [] op = "get_user_data" -> get_user_data(resp)
      [] op = "is_premium" -> is_premium(resp)
      [] op = "user_status" -> user_status(resp)
      [] op = "post_status" -> post_status(resp)
      [] op = "get_user_friends" -> get_user_friends(resp)
      [] op = "check_status" -> check_status(resp)
      [] op = "unfriend" -> unfriend(resp)
      [] op = "friend_request_count" -> friend_request_count(resp)
      [] op = "decline_all_friend_requests" -> decline_all_friend_requests(resp)
      [] op = "accept_friend_request" -> accept_friend_request(resp)
      [] op = "decline_friend_request" -> decline_friend_request(resp)
      [] op = "request_friendship" -> request_friendship(resp)
      [] op = "follow" -> follow(resp)
      [] op = "unfollow" -> unfollow(resp)
      [] op = "follower_count" -> follower_count(resp)
      [] op = "followings_count" -> followings_count(resp)
      [] op = "product_info" -> product_info(resp)
      [] op = "get_currency" -> get_currency(resp)
      [] op = "purchase_product" -> purchase_product(resp)
      [] op = "has_asset" -> has_asset(resp)
      [] op = "favorites_count" -> favorites_count(resp)
      [] op = "favorite_model" -> favorite_model(resp)
      [] op = "delete_favorite" -> delete_favorite(resp)
      [] op = "create_favorite" -> create_favorite(resp)
      [] op = "universe_favorited" -> universe_favorited(resp)
      [] op = "universe_favorites" -> universe_favorites(resp)
      [] op = "favorite_universe" -> favorite_universe(resp)
      [] op = "get_place_details" -> get_place_details(resp)
      [] op = "get_game_details" -> get_game_details(resp)
      [] op = "delete_from_inventory" -> delete_from_inventory(resp)
      [] op = "configure_asset" -> configure_asset(resp)
      [] op = "get_group_details" -> get_group_details(resp)
      [] op = "get_group_roles" -> get_group_roles(resp)
      [] op = "get_role_details" -> get_role_details(resp)
      [] op = "get_user_roles" -> get_user_roles(resp)
      [] op = "set_member_role" -> set_member_role(resp)
      [] op = "configure_role" -> configure_role(resp)
      [] op = "get_permissions" -> get_permissions(resp)
      [] op = "edit_permissions" -> edit_permissions(resp)

\* the first block of a two-step operation: login and configure_asset_sales
\* only read the token; upload_asset raises when the page holds no
\* verification token
FirstOutcome(op, resp) ==
    IF op = "upload_asset" /\ "rvt" \notin DOMAIN resp.body
    THEN Raise("AuthError") ELSE Return(Null)

\* the second block of a two-step operation
SecondOutcome(op, resp) ==
    CASE op = "login" -> login_post(resp)
      [] op = "configure_asset_sales" -> configure_asset_sales_post(resp)
      [] op = "upload_asset" -> Return(resp.body)

\* download_asset on its first response; "redirect" asks for a second request
download_asset(resp) ==
    IF ok(resp)
    THEN IF resp.body["encoding"] # Null
         THEN IF resp.body["roblox"] = True
              THEN IF resp.body["url"] # Null THEN Return("redirect")
                   ELSE Raise("AssetError")
              ELSE Return("none")
         ELSE Return("written")
    ELSE IF resp.status = 409 THEN Raise("AuthError") ELSE Return("none")

\* download_asset on the response to the redirect: the status checked is
\* the status of the first response
download_asset_redirect(resp, content) ==
    IF ~ok(resp) /\ resp.status = 403 THEN Raise("AuthError") ELSE Return("written")

\* the limit set whatever the caller passed
FirstParams_override(params) ==
    [k \in DOMAIN params \cup {"limit"} |-> IF k = "limit" THEN 100 ELSE params[k]]

\* gen_pages: params = params or {}; params.setdefault("limit", 100)
FirstParams(params) == SetDefault(params, "limit", 100)

\* gen_pages: params.update(cursor=cursor)
\* the cursor stored with setdefault, which keeps the cursor already there
NextParams_setdefault(params, cursor) == SetDefault(params, "cursor", cursor)

NextParams(params, cursor) ==
    [k \in DOMAIN params \cup {"cursor"} |-> IF k = "cursor" THEN cursor ELSE params[k]]

\* gen_pages on one page: the items it yields and the cursor it reads
PageItems(resp) == Get(resp.body, "data", <<>>)
PageCursor(resp) == Get(resp.body, "nextPageCursor", Null)

\* the responses the API may give
ErrStatuses == {400, 401, 403, 404, 409, 500}
ErrCodes == {0, 1, 2, 7, 10, 11, 99}

OkBody == [Id |-> 1, data |-> <<>>, count |-> 0, status |-> 30, rvt |-> 1]

ErrResps == {ErrResp(st, c) : st \in ErrStatuses, c \in ErrCodes}

FriendshipResps ==
    {[status |-> 200, body |-> [success |-> True]],
     [status |-> 200, body |-> [success |-> False, isCaptchaRequired |-> True]]}
    \cup ErrResps

DownloadResps ==
    {[status |-> 200, body |-> [encoding |-> e, roblox |-> x, url |-> u]] :
        e \in {Null, 1}, x \in {True, False}, u \in {Null, 1}}
    \cup ErrResps

Resps(op) ==
    CASE op = "purchase_product" -> BuyResps \cup ErrResps
      [] op = "request_friendship" -> FriendshipResps
      [] op = "download_asset" -> DownloadResps
      [] op = "login" ->
            {[status |-> 200, body |-> OkBody], [status |-> 403, body |-> [errors |-> <<>>]]}
            \cup ErrResps
      [] op = "upload_asset" ->
            {[status |-> 200, body |-> OkBody], [status |-> 200, body |-> EmptyRec]}
            \cup ErrResps
      [] OTHER -> {[status |-> 200, body |-> OkBody]} \cup ErrResps

\* Session.req: one request, identified by its endpoint and its parameters
Req(name, params) == <<name, params>>

\* the block "async with self.req(...) as resp" is entered
Enter(s, request) ==
    [s EXCEPT !.open = @ + 1, !.reqs = Append(@, request)]

\* a response arrives in the open block
Answer(s, resp) ==
    [s EXCEPT !.answered = @ + 1, !.bad = @ \/ ~ok(resp),
              !.first = IF @ = 0 THEN resp.status ELSE @, !.status = resp.status]

\* the operation ends, by return or by exception: every open block is left
Done(s, out) == [s EXCEPT !.open = 0, !.out = out, !.pc = "done"]

\* an operation is called on the session, idle or done with the previous one
Call(op, given) ==
    /\ sess.pc \in {"idle", "done"}
    /\ \E params \in {IF op \in PagedOps THEN FirstParams(given) ELSE EmptyRec} :
          sess' = [Enter(SessIdle, Req(op, params)) EXCEPT
                      !.op = op, !.pc = "resp", !.params = params, !.given = given]
    /\ UNCHANGED <<obj, last, hist, cmp, iter, client, shout>>

Receive(resp) ==
    /\ sess.pc = "resp"
    /\ sess.op \in SimpleOps
    /\ sess' = Done(Answer(sess, resp), Outcome(sess.op, resp))
    /\ UNCHANGED <<obj, last, hist, cmp, iter, client, shout>>

ReceiveFirst(resp) ==
    /\ sess.pc = "resp"
    /\ sess.op \in TwoStepOps
    /\ LET out == FirstOutcome(sess.op, resp)
       IN  sess' = IF out.kind = "raise"
                   THEN Done(Answer(sess, resp), out)
                   ELSE [Answer(sess, resp) EXCEPT !.open = @ - 1, !.pc = "second"]
    /\ UNCHANGED <<obj, last, hist, cmp, iter, client, shout>>

SendSecond ==
    /\ sess.pc = "second"
    /\ sess' = [Enter(sess, Req(sess.op, [step |-> 2])) EXCEPT !.pc = "resp2"]
    /\ UNCHANGED <<obj, last, hist, cmp, iter, client, shout>>

ReceiveSecond(resp) ==
    /\ sess.pc = "resp2"
    /\ sess.op \in TwoStepOps
    /\ sess' = Done(Answer(sess, resp), SecondOutcome(sess.op, resp))
    /\ UNCHANGED <<obj, last, hist, cmp, iter, client, shout>>

\* download_asset: the redirect is requested inside the block of the first
\* response
DownloadReceive(resp) ==
    /\ sess.pc = "resp"
    /\ sess.op = "download_asset"
    /\ LET out == download_asset(resp)
       IN  sess' = IF out.kind = "return" /\ out.val = "redirect"
                   THEN [Enter(Answer(sess, resp), Req("download_asset", [url |-> 1]))
                            EXCEPT !.pc = "content"]
                   ELSE Done(Answer(sess, resp),
                             IF out.kind = "raise" THEN out ELSE Return(Null))
    /\ UNCHANGED <<obj, last, hist, cmp, iter, client, shout>>

DownloadContent(content) ==
    /\ sess.pc = "content"
    /\ LET out == download_asset_redirect([status |-> sess.first], content)
       IN  sess' = Done(Answer(sess, content),
                        IF out.kind = "raise" THEN out ELSE Return(Null))
    /\ UNCHANGED <<obj, last, hist, cmp, iter, client, shout>>

\* the page a listing request asks for: the first one, or the one its cursor names
PageOf(params) == IF "cursor" \in DOMAIN params THEN params["cursor"] ELSE 1

\* the answers of a listing to the request for page p: up to MaxItems items
\* and the cursor of the following page, or none on the last page
PageResps(p) ==
    {[status |-> 200,
      body |-> [data |-> [k \in 1..n |-> 10 * p + k], nextPageCursor |-> c]] :
        n \in 0..MaxItems, c \in {Null} \cup (IF p < MaxPages THEN {p + 1} ELSE {})}
    \cup {ErrResp(400, 1), ErrResp(500, 0)}

\* gen_pages, one turn of its loop: the items of the page are yielded inside
\* the block, the cursor is stored, and the loop ends on a null cursor
PageReceive(resp) ==
    /\ sess.pc = "resp"
    /\ sess.op \in PagedOps
    /\ LET s1 == [Answer(sess, resp) EXCEPT
                     !.yielded = @ \o PageItems(resp),
                     !.served = Append(@, resp),
                     !.params = NextParams(@, PageCursor(resp))]
       IN  sess' = IF PageCursor(resp) = Null
                   THEN Done(s1, Return(Null))
                   ELSE [s1 EXCEPT !.open = @ - 1, !.pc = "next"]
    /\ UNCHANGED <<obj, last, hist, cmp, iter, client, shout>>

PageSend ==
    /\ sess.pc = "next"
    /\ Len(sess.reqs) <= MaxPages
    /\ sess' = [Enter(sess, Req(sess.op, sess.params)) EXCEPT !.pc = "resp"]
    /\ UNCHANGED <<obj, last, hist, cmp, iter, client, shout>>

SessOps == SimpleOps \cup TwoStepOps \cup PagedOps \cup {"download_asset"}

InitSess ==
    /\ obj = NoObj
    /\ last = NoLast
    /\ hist = NoHist
    /\ sess = SessIdle
    /\ cmp = NoCmp
    /\ iter = NoIter
    /\ client = NoClient
    /\ shout = NoShout

NextSess ==
    \/ \E op \in SessOps : \E given \in GivenParams(op) : Call(op, given)
    \/ \E resp \in Resps(sess.op) : Receive(resp)
    \/ \E resp \in Resps(sess.op) : ReceiveFirst(resp)
    \/ SendSecond
    \/ \E resp \in Resps(sess.op) : ReceiveSecond(resp)
    \/ \E resp \in DownloadResps : DownloadReceive(resp)
    \/ \E content \in {[status |-> 200, body |-> OkBody], ErrResp(403, 0)} :
          DownloadContent(content)
    \/ \E resp \in PageResps(PageOf(sess.params)) : PageReceive(resp)
    \/ PageSend

SpecSess == InitSess /\ [][NextSess]_vars

-----------------------------------------------------------------------------
(* Properties of the Session *)

\* C4 (as claimed): an operation that received a non-2xx response ends by
\* raising, logout and is_authorized excepted
ErrorsRaise ==
    (sess.pc = "done" /\ sess.bad /\ sess.op \notin {"logout", "is_authorized"})
    => sess.out.kind = "raise"

\* C5 (as claimed): what an operation raises on a failing response is a
\* class of errors.py
RaisesRobloxException ==
    (sess.pc = "done" /\ sess.bad /\ sess.out.kind = "raise")
    => sess.out.exc \in RobloxExceptions

\* C6 (as claimed): at most one response is open at any time
OneOpenResponse == sess.open <= 1

\* C7: no request is sent twice by one operation; every request is sent
\* only after the previous one was answered, and none after the response
\* that ended the operation, so a listing costs one request per page
NoRetry ==
    /\ \A i, j \in DOMAIN sess.reqs : i # j => sess.reqs[i] # sess.reqs[j]
    /\ Len(sess.reqs) <= sess.answered + 1
    /\ sess.pc = "done" => Len(sess.reqs) = sess.answered

\* C7 witness: a listing ended after several pages
SeveralPagesRead ==
    /\ sess.pc = "done"
    /\ sess.op \in PagedOps
    /\ Len(sess.reqs) >= 2
    /\ Len(sess.yielded) >= 2

\* C15 (as claimed): Session.login returns True when the login request is
\* answered 2xx, and does not return normally when it is not
LoginReturnsTrue ==
    (sess.op = "login" /\ sess.pc = "done" /\ Len(sess.reqs) = 2)
    => IF ok([status |-> sess.status])
       THEN sess.out = Return(True)
       ELSE sess.out.kind = "raise"

\* the items of the pages served so far, page after page
RECURSIVE ItemsOf(_)
ItemsOf(pages) ==
    IF pages = <<>> THEN <<>>
    ELSE (IF "data" \in DOMAIN Head(pages).body THEN Head(pages).body["data"] ELSE <<>>)
         \o ItemsOf(Tail(pages))

\* the nextPageCursor of a served page, Null when it has none
CursorOf(page) ==
    IF "nextPageCursor" \in DOMAIN page.body THEN page.body["nextPageCursor"] ELSE Null

-----------------------------------------------------------------------------
(* Rank comparisons.  An operand is [kind, rank]: for a GroupMember, rank  *)
(* is the rank of its role and Null when its role is None; for a Role,     *)
(* rank is the stored rank and Null while it has not been loaded.          *)

\* GroupMember._comp: 1, 0 or -1, or the exception raised
GroupMember_comp(x, y) ==
    LET my_rank == IF x.rank = Null THEN 0 ELSE x.rank
    IN  IF y.kind \notin {"GroupMember", "Role"} THEN [c |-> 0, exc |-> "UserError"]
        ELSE IF y.kind = "Role" /\ y.rank = Null THEN [c |-> 0, exc |-> "TypeError"]
        ELSE LET other_rank == IF y.kind = "GroupMember" /\ y.rank = Null
                               THEN 0 ELSE y.rank
             IN  [c |-> IF my_rank > other_rank THEN 1
                        ELSE IF my_rank = other_rank THEN 0 ELSE -1,
                  exc |-> ""]

GroupMember_gt(c) == c = 1
GroupMember_ge(c) == c > 0
GroupMember_lt(c) == c = -1
GroupMember_le(c) == c < 0

\* Role._comp: "return False" for a member without a role is 0
Role_comp(x, y) ==
    IF y.kind = "GroupMember" /\ y.rank = Null THEN [c |-> False, exc |-> ""]
    ELSE IF x.rank = Null \/ y.rank = Null THEN [c |-> 0, exc |-> "TypeError"]
    ELSE [c |-> IF x.rank > y.rank THEN 1 ELSE IF x.rank < y.rank THEN -1 ELSE 0,
          exc |-> ""]

Role_gt(c) == c = 1
\* __ge__ as GroupMember writes it
Role_ge_strict(c) == c > 0
Role_ge(c) == c >= 0
Role_lt(c) == c = -1
Role_le(c) == c <= 0

Operators == {">", ">=", "<", "<="}

\* x opr y, dispatched on the class of x
Compare(x, y, opr) ==
    LET r == IF x.kind = "GroupMember" THEN GroupMember_comp(x, y) ELSE Role_comp(x, y)
        b == IF x.kind = "GroupMember"
             THEN CASE opr = ">" -> GroupMember_gt(r.c)
                    [] opr = ">=" -> GroupMember_ge(r.c)
                    [] opr = "<" -> GroupMember_lt(r.c)
                    [] opr = "<=" -> GroupMember_le(r.c)
             ELSE CASE opr = ">" -> Role_gt(r.c)
                    [] opr = ">=" -> Role_ge(r.c)
                    [] opr = "<" -> Role_lt(r.c)
                    [] opr = "<=" -> Role_le(r.c)
    IN  IF r.exc # "" THEN [res |-> FALSE, exc |-> r.exc] ELSE [res |-> b, exc |-> ""]

Operands ==
    {[kind |-> k, rank |-> r] : k \in {"GroupMember", "Role"}, r \in Ranks \cup {Null}}

Evaluate(x, y, opr) ==
    /\ cmp' = [x |-> x, y |-> y, opr |-> opr,
               res |-> Compare(x, y, opr).res, exc |-> Compare(x, y, opr).exc]
    /\ UNCHANGED <<obj, last, hist, sess, iter, client, shout>>

InitCmp ==
    /\ obj = NoObj
    /\ last = NoLast
    /\ hist = NoHist
    /\ sess = SessIdle
    /\ cmp = NoCmp
    /\ iter = NoIter
    /\ client = NoClient
    /\ shout = NoShout

NextCmp == \E x \in Operands, y \in Operands, opr \in Operators : Evaluate(x, y, opr)

SpecCmp == InitCmp /\ [][NextCmp]_vars

\* the comparison of two integers that an operator stands for
IntCompare(opr, a, b) ==
    CASE opr = ">" -> a > b
      [] opr = ">=" -> a >= b
      [] opr = "<" -> a < b
      [] opr = "<=" -> a <= b

\* the rank of an operand, a member without a role counting as rank 0
RankOf(v) == IF v.kind = "GroupMember" /\ v.rank = Null THEN 0 ELSE v.rank

\* C8 (as claimed): a GroupMember compares with a GroupMember or a Role as
\* their ranks compare, a member without a role having rank 0
MemberComparison ==
    (cmp.x.kind = "GroupMember"
        /\ (cmp.y.kind = "GroupMember" \/ (cmp.y.kind = "Role" /\ cmp.y.rank # Null)))
    => (cmp.exc = "" /\ cmp.res = IntCompare(cmp.opr, RankOf(cmp.x), RankOf(cmp.y)))

\* C9: a Role with an integer rank compares with a Role, or with a
\* GroupMember holding a role, as their ranks compare
RoleComparison ==
    (cmp.x.kind = "Role" /\ cmp.x.rank # Null
        /\ cmp.y.kind \in {"GroupMember", "Role"} /\ cmp.y.rank # Null)
    => (cmp.exc = "" /\ cmp.res = IntCompare(cmp.opr, cmp.x.rank, cmp.y.rank))

\* C9 witness: a Role found greater than or equal to a member of equal rank
RoleEqualRanks ==
    /\ cmp.x.kind = "Role"
    /\ cmp.y.kind = "GroupMember"
    /\ cmp.x.rank # Null
    /\ cmp.x.rank = cmp.y.rank
    /\ cmp.opr = ">="
    /\ cmp.res = TRUE

-----------------------------------------------------------------------------
(* AsyncIterator and its subclasses.  A listing of the server is a sequence *)
(* of entries; iter.srv maps the name of a listing to its entries.  The     *)
(* user behind an iterator has a known id, so reading it sends no request.  *)

MaxLen == 2

Entries == 1..MaxLen

Listings == UNION {[1..n -> Entries] : n \in 0..MaxLen}

Limits == {Null} \cup (0..(MaxLen + 1))

\* the members of enums.AssetType the model uses
AssetType == [Hat |-> 8, Place |-> 9, Model |-> 10]

\* getattr(AssetType, name)
GetAttr(name) ==
    IF name \in DOMAIN AssetType THEN Return(AssetType[name])
    ELSE Raise("AttributeError")

\* the iterators of the model: user.friends, user.followers, user.followings,
\* client.blocked, inventory.by_type(t)
IterKinds == {"friends", "followers", "followings", "blocked", "by_type"}

\* self._gen as the constructor call of each kind passes it: a generator
\* object (gen=gen()), the generator function itself (gen=gen), or nothing
\* for the subclasses that define __aiter__
GenOf(kind) ==
    CASE kind \in {"friends", "by_type"} -> "generator"
      [] kind = "blocked" -> "function"
      [] OTHER -> "none"

\* the JSON entry of a listing of each kind
JsonEntry(kind, e) ==
    CASE kind = "blocked" -> [Name |-> 10 + e, uid |-> e]
      [] kind = "by_type" -> [assetId |-> e, assetName |-> 10 + e]
      [] OTHER -> [id |-> e, name |-> 10 + e]

\* the object the body of the generator yields for one entry
Yield(kind, e) ==
    CASE kind = "blocked" ->
            [cls |-> "User",
             data |-> Constructed("User", [username |-> JsonEntry(kind, e)["Name"],
                                           id |-> JsonEntry(kind, e)["uid"]])]
      [] kind = "by_type" ->
            [cls |-> "Asset", data |-> Constructed("Asset", JsonEntry(kind, e))]
      [] OTHER ->
            [cls |-> "User", data |-> Constructed("User", JsonEntry(kind, e))]

\* the response to the settings request
SettingsResp(it) ==
    IF it.auth
    THEN [status |-> 200,
          body |-> [BlockedUsersModel |->
                      [BlockedUsers |-> [i \in DOMAIN it.srv["blocked"] |->
                                            JsonEntry("blocked", it.srv["blocked"][i])]]]]
    ELSE ErrResp(401, 0)

\* the body of the generator of each kind, run to its end: the objects it
\* yields, or the exception its first request raises
Body(it) ==
    IF it.kind = "blocked" /\ my_settings(SettingsResp(it)).kind = "raise"
    THEN [exc |-> my_settings(SettingsResp(it)).exc, items |-> <<>>]
    ELSE [exc |-> "",
          items |-> [i \in DOMAIN it.srv[it.kind] |-> Yield(it.kind, it.srv[it.kind][i])]]

\* the request the body of the generator starts with
BodyReq(kind) ==
    CASE kind = "friends" -> "get_user_friends"
      [] kind = "blocked" -> "my_settings"
      [] kind = "by_type" -> "inventory_by_type"
      [] OTHER -> kind

\* "async for obj in self": __aiter__ returns self._gen, or a new generator
\* in the subclasses that define __aiter__.  A generator object resumes
\* after the last item it has yielded (it.pos); a function has no __anext__.
AsyncFor(it) ==
    IF it.gen = "function"
    THEN [exc |-> "TypeError", items |-> <<>>, reqs |-> <<>>, from |-> 0]
    ELSE CHOOSE src \in
            {IF it.gen = "none"
             THEN [exc |-> body.exc, items |-> body.items,
                   reqs |-> <<BodyReq(it.kind)>>, from |-> 0]
             ELSE [exc |-> IF it.started THEN "" ELSE body.exc,
                   items |-> SubSeq(body.items, it.pos + 1, Len(body.items)),
                   reqs |-> IF it.started THEN <<>> ELSE <<BodyReq(it.kind)>>,
                   from |-> it.pos] : body \in {Body(it)}} : TRUE

\* the loop of flatten: i items taken so far into r
RECURSIVE FlattenLoop(_, _, _, _)
FlattenLoop(items, limit, i, r) ==
    IF i = Len(items) THEN [list |-> r, taken |-> i]
    ELSE IF i + 1 = limit THEN [list |-> Append(r, items[i + 1]), taken |-> i + 1]
    ELSE FlattenLoop(items, limit, i + 1, Append(r, items[i + 1]))

\* the rest of flatten once "async for" has obtained its stream src
flatten_over(it, src, limit) ==
    IF src.exc # ""
    THEN [exc |-> src.exc, list |-> <<>>, ret |-> Null, reqs |-> src.reqs,
          pos |-> it.pos]
    ELSE CHOOSE out \in
            {[exc |-> "", list |-> run.list, ret |-> Null, reqs |-> src.reqs,
              pos |-> src.from + run.taken] :
                run \in {FlattenLoop(src.items, limit, 0, <<>>)}} : TRUE

\* AsyncIterator.flatten(limit)
flatten(it, limit) ==
    CHOOSE out \in {flatten_over(it, src, limit) : src \in {AsyncFor(it)}} : TRUE

\* BaseUser.__eq__ on two users with known ids
UserEq(x, y) == x.data["id"] = y.data["id"] /\ x.data["id"] # Null

\* the loop of has: the number of items taken when it returns, 0 for no match
RECURSIVE HasLoop(_, _, _)
HasLoop(items, item, i) ==
    IF i = Len(items) THEN [found |-> False, taken |-> i]
    ELSE IF UserEq(item, items[i + 1]) THEN [found |-> True, taken |-> i + 1]
    ELSE HasLoop(items, item, i + 1)

\* the rest of has once "async for" has obtained its stream src
has_over(it, src, item) ==
    IF src.exc # ""
    THEN [exc |-> src.exc, list |-> <<>>, ret |-> Null, reqs |-> src.reqs,
          pos |-> it.pos]
    ELSE CHOOSE out \in
            {[exc |-> "", list |-> <<>>, ret |-> run.found, reqs |-> src.reqs,
              pos |-> src.from + run.taken] :
                run \in {HasLoop(src.items, item, 0)}} : TRUE

\* AsyncIterator.has(item)
has(it, item) ==
    CHOOSE out \in {has_over(it, src, item) : src \in {AsyncFor(it)}} : TRUE

\* the response to the followings-count request
CountResp(it) == [status |-> 200, body |-> [count |-> Len(it.srv["followings"])]]

\* AsyncIterator.count, and the count property of FollowerList and
\* FollowingList
count(it) ==
    IF it.kind \in {"followers", "followings"}
    THEN LET out == followings_count(CountResp(it))
         IN  [exc |-> out.exc, list |-> <<>>, ret |-> out.val,
              reqs |-> <<"followings_count">>, pos |-> it.pos]
    ELSE CHOOSE out \in
            {[run EXCEPT !.ret = IF run.exc = "" THEN Len(run.list) ELSE Null,
                         !.list = <<>>] : run \in {flatten(it, Null)}} : TRUE

\* Inventory.by_type up to the construction of the iterator: the asset type
\* it will request, or the exception it raises
by_type(arg) ==
    IF arg.str
    THEN IF GetAttr(arg.name).kind = "raise" THEN GetAttr(arg.name)
         ELSE IF GetAttr(arg.name).val = Null THEN Raise("ValueError")
         ELSE GetAttr(arg.name)
    ELSE Return(arg.val)

\* the arguments by_type is called with: the name of a member, a string
\* that names none, a member
AssetTypeArgs ==
    {[str |-> TRUE, name |-> n, val |-> Null] : n \in {"Hat", "Model", "Nope"}}
    \cup {[str |-> FALSE, name |-> "", val |-> AssetType[n]] : n \in {"Hat"}}

-----------------------------------------------------------------------------
(* Operations on an iterator *)

NewIter(kind, srv, auth) ==
    [NoIter EXCEPT !.kind = kind, !.gen = GenOf(kind), !.srv = srv, !.auth = auth,
                   !.op = "__init__"]

\* user.friends, user.followers, user.followings, client.blocked
MakeIter(kind, own, followings, auth) ==
    /\ iter.kind = "none"
    /\ iter.op = ""
    /\ kind \in IterKinds \ {"by_type"}
    /\ kind = "followings" => own = followings
    /\ kind \notin {"followers", "followings"} => followings = <<>>
    /\ kind # "blocked" => auth
    /\ iter' = NewIter(kind, [l \in {kind, "followings"} |->
                                IF l = kind THEN own ELSE followings], auth)
    /\ UNCHANGED <<obj, last, hist, sess, cmp, client, shout>>

\* user.inventory.by_type(asset_type)
ByType(arg, own) ==
    /\ iter.kind = "none"
    /\ iter.op = ""
    /\ \E out \in {by_type(arg)} :
          iter' = IF out.kind = "raise"
                  THEN [NoIter EXCEPT !.op = "by_type", !.targ = arg, !.exc = out.exc]
                  ELSE [NewIter("by_type", [l \in {"by_type"} |-> own], TRUE)
                            EXCEPT !.op = "by_type", !.targ = arg, !.atype = out.val]
    /\ UNCHANGED <<obj, last, hist, sess, cmp, client, shout>>

\* the iterator after an operation that ran as run
Ran(op, arg, run) ==
    [iter EXCEPT !.op = op, !.arg = arg, !.exc = run.exc, !.list = run.list,
                 !.ret = run.ret, !.reqs = run.reqs,
                 !.pos = IF iter.gen = "generator" THEN run.pos ELSE @,
                 !.fresh = ~iter.started,
                 !.started = @ \/ (iter.gen = "generator" /\ Len(run.reqs) > 0)]

Flatten(limit) ==
    /\ iter.kind \in IterKinds
    /\ \E run \in {flatten(iter, limit)} : iter' = Ran("flatten", limit, run)
    /\ UNCHANGED <<obj, last, hist, sess, cmp, client, shout>>

Has(e) ==
    /\ iter.kind \in IterKinds \ {"by_type"}
    /\ \E run \in {has(iter, Yield("friends", e))} : iter' = Ran("has", e, run)
    /\ UNCHANGED <<obj, last, hist, sess, cmp, client, shout>>

Count ==
    /\ iter.kind \in IterKinds
    /\ \E run \in {count(iter)} : iter' = Ran("count", Null, run)
    /\ UNCHANGED <<obj, last, hist, sess, cmp, client, shout>>

InitIter ==
    /\ obj = NoObj
    /\ last = NoLast
    /\ hist = NoHist
    /\ sess = SessIdle
    /\ cmp = NoCmp
    /\ iter = NoIter
    /\ client = NoClient
    /\ shout = NoShout

NextIter ==
    \/ \E kind \in IterKinds, own \in Listings, followings \in Listings,
          auth \in BOOLEAN : MakeIter(kind, own, followings, auth)
    \/ \E arg \in AssetTypeArgs, own \in Listings : ByType(arg, own)
    \/ \E limit \in Limits : Flatten(limit)
    \/ \E e \in Entries : Has(e)
    \/ Count

SpecIter == InitIter /\ [][NextIter]_vars

-----------------------------------------------------------------------------
(* Properties of the iterators *)

Min(a, b) == IF a < b THEN a ELSE b

\* the objects a full iteration of a new iterator yields
AllItems(it) == [i \in DOMAIN it.srv[it.kind] |-> Yield(it.kind, it.srv[it.kind][i])]

\* C11 (as claimed): flatten(limit=n) on an iterator that yields N items
\* returns its first min(n, N) items in order for every n >= 0, and all N
\* items without a limit
FlattenLimit ==
    (iter.op = "flatten" /\ iter.exc = "" /\ iter.fresh)
    => iter.list = SubSeq(AllItems(iter), 1,
                          IF iter.arg = Null THEN Len(AllItems(iter))
                          ELSE Min(iter.arg, Len(AllItems(iter))))

\* C12 (as claimed): count returns the number of items iterating the same
\* object yields against the same server state
CountIsLength ==
    (iter.op = "count" /\ iter.exc = "" /\ iter.fresh)
    => iter.ret = Len(AllItems(iter))

\* C17 (as claimed): by_type with a string that names no member of AssetType
\* raises ValueError and sends no request
ByTypeRejects ==
    (iter.op = "by_type" /\ iter.targ.str /\ iter.targ.name \notin DOMAIN AssetType)
    => (iter.exc = "ValueError" /\ iter.reqs = <<>>)

\* C18 (as claimed): an operation on client.blocked raises AuthError when
\* the settings request is not authorized and otherwise iterates one User
\* per entry of BlockedUsers, in list order
BlockedYields ==
    (iter.kind = "blocked" /\ iter.op \in {"flatten", "has", "count"})
    => /\ ~iter.auth => iter.exc = "AuthError"
       /\ iter.auth => iter.exc = ""
       /\ (iter.auth /\ iter.op = "flatten" /\ iter.arg = Null)
            => iter.list = AllItems(iter)

-----------------------------------------------------------------------------
(* The Roblox client: login, manual_auth, the cached user property and      *)
(* get_user.  The server knows the accounts of Usernames; account u has id  *)
(* UserIdOf(u).  The username "" is 0.                                       *)

Usernames == {10, 11}

UserIdOf(u) == u - 9

\* the server's answer to get_by_username(u) and to get_user_data(id)
NameResp(u) ==
    IF u \in Usernames THEN [status |-> 200, body |-> [Id |-> UserIdOf(u)]]
    ELSE ErrResp(404, 0)

ProfileResp(id) ==
    IF id \in {UserIdOf(u) : u \in Usernames}
    THEN [status |-> 200,
          body |-> [id |-> id, name |-> id + 9, description |-> 20, isBanned |-> 0]]
    ELSE ErrResp(404, 0)

\* Roblox.user (cached_property): built from the client's username on the
\* first read, the same object on every later read
Roblox_user(c) ==
    IF c.user.cls # "none" THEN c.user
    ELSE [NoObj EXCEPT !.cls = "ClientUser",
                       !.data = Constructed("ClientUser", [username |-> c.username])]

\* await self.user._get_profile_data() on the user object u
Roblox_profile(u) ==
    CHOOSE s \in
        {User_get_profile_data(Run(u), NameResp(u.data["username"]), ProfileResp(id)) :
            id \in {User_id(Run(u), NameResp(u.data["username"])).ret}} : TRUE

\* the last two statements of Roblox.login and Roblox.manual_auth, with the
\* client c already holding the session's username
Roblox_authorized(c, op, username) ==
    IF CtorRaises("ClientUser", Roblox_user(c).data)
    THEN [c EXCEPT !.op = op, !.arg = username, !.exc = "UserIdentificationError",
                   !.reqs = <<op>>, !.wasRead = c.user.cls # "none"]
    ELSE CHOOSE c1 \in
            {[c EXCEPT !.op = op, !.arg = username, !.exc = s.exc,
                       !.reqs = <<op>> \o s.reqs,
                       !.wasRead = c.user.cls # "none",
                       !.user = [Roblox_user(c) EXCEPT !.data = s.data,
                                                       !.idc = s.idc, !.unc = s.unc]] :
                s \in {Roblox_profile(Roblox_user(c))}} : TRUE

\* Roblox.login(username, password); resp answers the login request
Roblox_login(c, username, resp) ==
    IF login_post(resp).kind = "raise"
    THEN [c EXCEPT !.op = "login", !.arg = username, !.exc = login_post(resp).exc,
                   !.reqs = <<"login">>, !.wasRead = c.user.cls # "none"]
    ELSE Roblox_authorized([c EXCEPT !.session = Or(username, c.session),
                                     !.username = Or(username, c.session)],
                           "login", username)

\* Roblox.manual_auth(username, security_token); resp answers the request
\* for the home page
Roblox_manual_auth(c, username, resp) ==
    IF manual_auth(resp).kind = "raise"
    THEN [c EXCEPT !.op = "manual_auth", !.arg = username, !.session = username,
                   !.exc = manual_auth(resp).exc, !.reqs = <<"manual_auth">>,
                   !.wasRead = c.user.cls # "none"]
    ELSE Roblox_authorized([c EXCEPT !.session = username, !.username = username],
                           "manual_auth", username)

NoRet == [cls |-> "none", data |-> EmptyRec]

\* get_user without its test of the client's username
Roblox_get_user_plain(c, id, username) ==
    IF username = Null /\ id = Null THEN Raise("UserIdentificationError")
    ELSE Return([cls |-> "User",
                 data |-> Constructed("User", [username |-> username, id |-> id])])

\* Roblox.get_user(id=, username=)
Roblox_get_user(c, id, username) ==
    IF username = Null /\ id = Null THEN Raise("UserIdentificationError")
    ELSE IF username = c.username
    THEN Return([cls |-> "ClientUser",
                 data |-> Constructed("ClientUser", [username |-> username, id |-> id])])
    ELSE Return([cls |-> "User",
                 data |-> Constructed("User", [username |-> username, id |-> id])])

-----------------------------------------------------------------------------
(* Operations on the client *)

ReadUser ==
    /\ client.user.cls = "none"
    /\ client' = [client EXCEPT !.op = "user", !.arg = Null, !.exc = "",
                                !.reqs = <<>>, !.ret = NoRet, !.wasRead = FALSE,
                                !.user = Roblox_user(client)]
    /\ UNCHANGED <<obj, last, hist, sess, cmp, iter, shout>>

Login(username, resp) ==
    /\ client' = [Roblox_login(client, username, resp) EXCEPT !.ret = NoRet]
    /\ UNCHANGED <<obj, last, hist, sess, cmp, iter, shout>>

ManualAuth(username, resp) ==
    /\ client' = [Roblox_manual_auth(client, username, resp) EXCEPT !.ret = NoRet]
    /\ UNCHANGED <<obj, last, hist, sess, cmp, iter, shout>>

GetUser(id, username) ==
    /\ \E out \in {Roblox_get_user(client, id, username)} :
          client' = [client EXCEPT !.op = "get_user", !.arg = username, !.argId = id,
                                   !.exc = out.exc, !.reqs = <<>>, !.wasRead = FALSE,
                                   !.ret = IF out.kind = "raise" THEN NoRet ELSE out.val]
    /\ UNCHANGED <<obj, last, hist, sess, cmp, iter, shout>>

AuthResps == {[status |-> 200, body |-> EmptyRec], ErrResp(403, 0), ErrResp(403, 2)}

InitClient ==
    /\ obj = NoObj
    /\ last = NoLast
    /\ hist = NoHist
    /\ sess = SessIdle
    /\ cmp = NoCmp
    /\ iter = NoIter
    /\ client = NoClient
    /\ shout = NoShout

NextClient ==
    \/ ReadUser
    \/ \E username \in {0} \cup Usernames, resp \in AuthResps : Login(username, resp)
    \/ \E username \in {0} \cup Usernames, resp \in AuthResps :
          ManualAuth(username, resp)
    \/ \E id \in {Null} \cup {UserIdOf(u) : u \in Usernames},
          username \in {Null, 0} \cup Usernames : GetUser(id, username)

SpecClient == InitClient /\ [][NextClient]_vars

-----------------------------------------------------------------------------
(* Properties of the client *)

\* C13 (as claimed): after a successful login or manual_auth, client.user is
\* a ClientUser with the username just authorized and that account's id
UserIsAuthorized ==
    (client.op \in {"login", "manual_auth"} /\ client.exc = "")
    => /\ client.user.cls = "ClientUser"
       /\ client.user.data["username"] = client.arg
       /\ client.user.data["id"] = UserIdOf(client.arg)

\* C14: get_user raises UserIdentificationError and builds nothing when id
\* and username are both null; otherwise it sends no request and returns a
\* ClientUser exactly when the username is the client's, else a User, with
\* the id and username it was given
GetUserContract ==
    client.op = "get_user"
    => IF client.arg = Null /\ client.argId = Null
       THEN client.exc = "UserIdentificationError" /\ client.ret = NoRet
       ELSE /\ client.exc = ""
            /\ client.reqs = <<>>
            /\ client.ret.cls = IF client.arg = client.username
                                THEN "ClientUser" ELSE "User"
            /\ client.ret.data["id"] = client.argId
            /\ client.ret.data["username"] = client.arg

\* C14 witness: get_user has returned a ClientUser for the username
\* authorized by an earlier login
GetUserReturnsClientUser ==
    /\ client.op = "get_user"
    /\ client.username \in Usernames
    /\ client.ret.cls = "ClientUser"

-----------------------------------------------------------------------------
(* Shout.poster and Group.get_member.  The shout belongs to a group with a  *)
(* known id; the server answers the request for the poster's group roles   *)
(* with a list of entries [group |-> [id |-> g], role |-> k].              *)

Groups == {1, 2}

RoleEntries == {[group |-> [id |-> g], role |-> 100 + g] : g \in Groups}

RolesResps ==
    {[status |-> 200, body |-> [data |-> l]] :
        l \in UNION {[1..n -> RoleEntries] : n \in 0..MaxLen}}
    \cup {ErrResp(500, 0)}

\* the loop of get_member: the first entry of this group, Null when none is
RECURSIVE Match(_, _, _)
Match(entries, gid, i) ==
    IF i > Len(entries) THEN Null
    ELSE IF entries[i]["group"]["id"] = gid THEN i
    ELSE Match(entries, gid, i + 1)

\* get_member from the roles request on, for the user data with its id set
Group_get_member_roles(gid, s, resp) ==
    IF get_user_roles(resp).kind = "raise"
    THEN [exc |-> get_user_roles(resp).exc, ret |-> NoRet, data |-> s.data,
          reqs |-> Append(s.reqs, "get_user_roles")]
    ELSE CHOOSE m \in
            {IF i = Null
             THEN [exc |-> "UserNotInGroup", ret |-> NoRet, data |-> s.data,
                   reqs |-> Append(s.reqs, "get_user_roles")]
             ELSE [exc |-> "",
                   ret |-> [cls |-> "GroupMember",
                            data |-> Constructed("GroupMember",
                                        [user |-> s.data,
                                         role |-> resp.body["data"][i]["role"]])],
                   data |-> s.data,
                   reqs |-> Append(s.reqs, "get_user_roles")] :
                i \in {Match(resp.body["data"], gid, 1)}} : TRUE

\* Group.get_member(user) for a BaseUser: its outcome, the user's data as the
\* call leaves it, and the requests sent
Group_get_member(gid, user, resp) ==
    CHOOSE m \in
        {IF s.exc # ""
         THEN [exc |-> s.exc, ret |-> NoRet, data |-> s.data, reqs |-> s.reqs]
         ELSE Group_get_member_roles(gid, [s EXCEPT !.data["id"] = s.ret], resp) :
            s \in {User_id(Run(user), NameResp(user.data["username"]))}} : TRUE

\* the user object get_user returned
AsObj(u) == [NoObj EXCEPT !.cls = u.cls, !.data = u.data]

\* poster with the exception of get_member passed on
Shout_poster_nocatch(sh, c, resp) ==
    IF Roblox_get_user(c, sh.posterId, sh.posterName).kind = "raise"
    THEN [exc |-> Roblox_get_user(c, sh.posterId, sh.posterName).exc, ret |-> NoRet,
          memberExc |-> "", called |-> FALSE, reqs |-> <<>>]
    ELSE CHOOSE r \in
            {[exc |-> m.exc, ret |-> m.ret, memberExc |-> m.exc, called |-> TRUE,
              reqs |-> m.reqs] :
                m \in {Group_get_member(sh.group,
                          AsObj(Roblox_get_user(c, sh.posterId, sh.posterName).val),
                          resp)}} : TRUE

\* Shout.poster
Shout_poster(sh, c, resp) ==
    IF Roblox_get_user(c, sh.posterId, sh.posterName).kind = "raise"
    THEN [exc |-> Roblox_get_user(c, sh.posterId, sh.posterName).exc, ret |-> NoRet,
          memberExc |-> "", called |-> FALSE, reqs |-> <<>>]
    ELSE CHOOSE r \in
            {IF m.exc = "UserNotInGroup"
             THEN [exc |-> "",
                   ret |-> [cls |-> Roblox_get_user(c, sh.posterId, sh.posterName).val.cls,
                            data |-> m.data],
                   memberExc |-> m.exc, called |-> TRUE, reqs |-> m.reqs]
             ELSE [exc |-> m.exc, ret |-> m.ret, memberExc |-> m.exc, called |-> TRUE,
                   reqs |-> m.reqs] :
                m \in {Group_get_member(sh.group,
                          AsObj(Roblox_get_user(c, sh.posterId, sh.posterName).val),
                          resp)}} : TRUE

-----------------------------------------------------------------------------
(* Operations on the shout *)

\* Group.shout builds the Shout of group gid from the group's details
NewShout(gid, posterId, posterName) ==
    /\ shout.group = Null
    /\ shout' = [NoShout EXCEPT !.group = gid, !.posterId = posterId,
                                !.posterName = posterName, !.op = "__init__"]
    /\ UNCHANGED <<obj, last, hist, sess, cmp, iter, client>>

\* await shout.poster, on a client whose username is cname
Poster(cname, resp) ==
    /\ shout.group # Null
    /\ \E r \in {Shout_poster(shout, [NoClient EXCEPT !.username = cname], resp)} :
          shout' = [shout EXCEPT !.op = "poster", !.cname = cname, !.exc = r.exc,
                                 !.ret = r.ret, !.memberExc = r.memberExc,
                                 !.called = r.called, !.reqs = r.reqs,
                                 !.entries = IF ok(resp) THEN resp.body["data"] ELSE <<>>,
                                 !.rolesOk = ok(resp)]
    /\ UNCHANGED <<obj, last, hist, sess, cmp, iter, client>>

InitShout ==
    /\ obj = NoObj
    /\ last = NoLast
    /\ hist = NoHist
    /\ sess = SessIdle
    /\ cmp = NoCmp
    /\ iter = NoIter
    /\ client = NoClient
    /\ shout = NoShout

NextShout ==
    \/ \E gid \in Groups, posterId \in {Null} \cup {UserIdOf(u) : u \in Usernames},
          posterName \in {Null} \cup Usernames : NewShout(gid, posterId, posterName)
    \/ \E cname \in {0} \cup Usernames, resp \in RolesResps : Poster(cname, resp)

SpecShout == InitShout /\ [][NextShout]_vars

-----------------------------------------------------------------------------
(* Properties of the shout *)

\* the poster has a role in the shout's group
InGroup == \E i \in DOMAIN shout.entries : shout.entries[i]["group"]["id"] = shout.group

====
